---------------------------- MODULE Spec2Model ----------------------------
(***************************************************************************)
(* Model of the Varustatistik formatter (varustatistik_formatter.py) and   *)
(* of the upload handler that calls it (app.py).                           *)
(*                                                                         *)
(* Text is modelled as a sequence of one-character strings, so that        *)
(* str.lower() and the `in` substring test are computed, not assumed.      *)
(* A date string YYYY-MM-DD is such a sequence too; datetime values are    *)
(* triples <<year, month, day>>.                                           *)
(* Quantities are integers: float(antal) of an integral cell, and float    *)
(* addition on the small integers used here is exact.                      *)
(***************************************************************************)
EXTENDS Integers, Sequences, FiniteSets, Bags, TLC

VARIABLES
    pc,               \* position of the invocation
    entry,            \* which entry point runs: "main", "external", "app"
    sheet_names,      \* xl_file.sheet_names still to be iterated
    sheet_name,       \* loop variable of `for sheet_name in xl_file.sheet_names`
    n_rows,           \* number of rows iterated so far, over all sheets
    row,              \* loop variable row of df.iterrows() (NoRow outside the loop)
    aggregated_data,  \* the defaultdict, as its items in insertion order
    accepted,         \* history: the bag of <<key, quantity>> added at line 127
    results,          \* the list process_excel_file returns
    output,           \* the text format_output returns
    xl_file,          \* the pd.ExcelFile handle: "none", "open", "closed"
    out_file,         \* the handle of open(output_file, 'w'): "none", "open", "closed"
    written,          \* the output file: whether it exists, and its content
    shown,            \* the count app.py puts in st.success (<<>>: nothing shown)
    arg,              \* argument of a direct call of a pure function
    ret               \* its return value

vars == <<pc, entry, sheet_names, sheet_name, n_rows, row, aggregated_data,
          accepted, results, output, xl_file, out_file, written, shown, arg, ret>>

---------------------------------------------------------------------------
(* Bounds of the model.                                                    *)

MaxSheets == 2      \* sheet names in one workbook
MaxRows == 3        \* rows in one workbook, over all its sheets
MaxFrags == 3       \* fragments concatenated into one category label
YearSpan == 28      \* consecutive years the timezone resolver is called on
FirstYear == 1999   \* first of those years

---------------------------------------------------------------------------
(* Text.                                                                   *)

UpperChars == <<"A","B","C","D","E","F","G","H","I","J","K","L","M","N","O",
                "P","Q","R","S","T","U","V","W","X","Y","Z","É","Å","Ä","Ö">>
LowerChars == <<"a","b","c","d","e","f","g","h","i","j","k","l","m","n","o",
                "p","q","r","s","t","u","v","w","x","y","z","é","å","ä","ö">>

\* str.lower() on one character
lower_char(c) ==
    IF \E i \in 1..Len(UpperChars) : UpperChars[i] = c
    THEN LowerChars[CHOOSE i \in 1..Len(UpperChars) : UpperChars[i] = c]
    ELSE c

\* str.lower()
lower(s) == [i \in 1..Len(s) |-> lower_char(s[i])]

\* `sub in s` on strings
contains(sub, s) ==
    \E i \in 1..(Len(s) - Len(sub) + 1) : SubSeq(s, i, i + Len(sub) - 1) = sub

cafe_lit == <<"c","a","f","é">>
sallad_lit == <<"s","a","l","l","a","d">>
food_lit == <<"f","o","o","d">>
kitchen_lit == <<"k","i","t","c","h","e","n">>
printer_lit == <<"p","r","i","n","t","e","r">>
kallmat == <<"k","a","l","l","m","a","t">>
varmmat == <<"v","a","r","m","m","a","t">>
empty_str == <<>>
unknown_lit == <<"u","n","k","n","o","w","n">>

\* A plausible slip: the generic 'food' test moved in front of the café/sallad test.
get_variable_id_food_first(category) ==
    LET category_lower == lower(category) IN
    IF contains(food_lit, category_lower) THEN varmmat
    ELSE IF contains(cafe_lit, category_lower) \/ contains(sallad_lit, category_lower)
         THEN kallmat
    ELSE empty_str

\* A plausible slip: an unknown category gets a placeholder id instead of ''.
get_variable_id_placeholder(category) ==
    LET category_lower == lower(category) IN
    IF contains(cafe_lit, category_lower) \/ contains(sallad_lit, category_lower)
    THEN kallmat
    ELSE IF contains(food_lit, category_lower) THEN varmmat
    ELSE unknown_lit

get_variable_id(category) ==
    LET category_lower == lower(category) IN
    IF contains(cafe_lit, category_lower) \/ contains(sallad_lit, category_lower)
    THEN kallmat
    ELSE IF contains(food_lit, category_lower)
            /\ (contains(kitchen_lit, category_lower)
                \/ contains(printer_lit, category_lower))
    THEN varmmat
    ELSE IF contains(food_lit, category_lower)
    THEN varmmat
    ELSE empty_str

---------------------------------------------------------------------------
(* Calendar, as datetime computes it.                                      *)

is_leap(y) == y % 4 = 0 /\ (y % 100 # 0 \/ y % 400 = 0)

days_in_month(y, m) ==
    IF m = 2 THEN (IF is_leap(y) THEN 29 ELSE 28)
    ELSE IF m \in {4, 6, 9, 11} THEN 30 ELSE 31

days_before_year(y) ==
    LET p == y - 1 IN p * 365 + (p \div 4) - (p \div 100) + (p \div 400)

RECURSIVE days_before_month(_, _)
days_before_month(y, m) ==
    IF m = 1 THEN 0 ELSE days_before_month(y, m - 1) + days_in_month(y, m - 1)

\* datetime.toordinal()
toordinal(d) == days_before_year(d[1]) + days_before_month(d[1], d[2]) + d[3]

\* datetime.weekday(): Monday is 0, Sunday is 6
weekday(d) == (toordinal(d) + 6) % 7

\* datetime(year, month, day) raises ValueError unless this holds
valid_date(d) ==
    /\ d[1] \in 1..9999
    /\ d[2] \in 1..12
    /\ d[3] \in 1..days_in_month(d[1], d[2])

\* the `while ... weekday() != 6: replace(day=day - 1)` loops; a day below 1
\* (where replace would raise) is returned as it is
RECURSIVE last_sunday_from(_)
last_sunday_from(d) ==
    IF d[3] < 1 \/ weekday(d) = 6 THEN d
    ELSE last_sunday_from(<<d[1], d[2], d[3] - 1>>)

\* comparison of two datetimes at midnight
date_le(a, b) == toordinal(a) <= toordinal(b)
date_lt(a, b) == toordinal(a) < toordinal(b)

Digits == <<"0","1","2","3","4","5","6","7","8","9">>
is_digit(c) == \E i \in 1..10 : Digits[i] = c
digit_value(c) == (CHOOSE i \in 1..10 : Digits[i] = c) - 1

\* int(s) of a digit string
RECURSIVE int_of(_)
int_of(s) ==
    IF s = <<>> THEN 0
    ELSE 10 * int_of(SubSeq(s, 1, Len(s) - 1)) + digit_value(s[Len(s)])

\* date_str.split('-') and map(int, ...), on a text \d{4}-\d{2}-\d{2}
parse_date(date_str) ==
    <<int_of(SubSeq(date_str, 1, 4)), int_of(SubSeq(date_str, 6, 7)),
      int_of(SubSeq(date_str, 9, 10))>>

CEST == <<"+","0","2",":","0","0">>
CET == <<"+","0","1",":","0","0">>
ValueError == <<"ValueError">>    \* stands for the exception datetime() raises

\* A plausible slip: the October bound made inclusive.
get_swedish_timezone_offset_inclusive(date_str) ==
    LET date == parse_date(date_str) IN
    IF ~valid_date(date) THEN ValueError
    ELSE LET march_last == last_sunday_from(<<date[1], 3, 31>>)
             october_last == last_sunday_from(<<date[1], 10, 31>>)
         IN IF date_le(march_last, date) /\ date_le(date, october_last)
            THEN CEST ELSE CET

get_swedish_timezone_offset(date_str) ==
    LET date == parse_date(date_str) IN
    IF ~valid_date(date) THEN ValueError
    ELSE LET march_last == last_sunday_from(<<date[1], 3, 31>>)
             october_last == last_sunday_from(<<date[1], 10, 31>>)
         IN IF date_le(march_last, date) /\ date_lt(date, october_last)
            THEN CEST ELSE CET

---------------------------------------------------------------------------
(* Cell values and text helpers of the pipeline.                           *)

\* the characters that occur in sort keys, in code point order
CharOrder == <<"+","-","0","1","2","3","4","5","6","7","8","9",":",
               "a","b","c","d","e","f","g","h","i","j","k","l","m",
               "n","o","p","q","r","s","t","u","v","w","x","y","z">>
ord(c) == CHOOSE i \in 1..Len(CharOrder) : CharOrder[i] = c

\* s < t on Python strings
RECURSIVE str_lt(_, _)
str_lt(s, t) ==
    IF t = <<>> THEN FALSE
    ELSE IF s = <<>> THEN TRUE
    ELSE IF s[1] = t[1] THEN str_lt(Tail(s), Tail(t))
    ELSE ord(s[1]) < ord(t[1])

\* a < b on Python tuples of strings
RECURSIVE tuple_lt(_, _)
tuple_lt(a, b) ==
    IF b = <<>> THEN FALSE
    ELSE IF a = <<>> THEN TRUE
    ELSE IF a[1] = b[1] THEN tuple_lt(Tail(a), Tail(b))
    ELSE str_lt(a[1], b[1])

\* A cell of the grid: blank (NaN), a number, or a text.
Blank == [t |-> "nan", v |-> 0, s |-> <<>>]
Num(n) == [t |-> "num", v |-> n, s |-> <<>>]
Txt(s) == [t |-> "str", v |-> 0, s |-> s]

notna(cell) == cell.t # "nan"

\* float(antal): a number as it is, a text of decimal digits as its value;
\* every other text of the model's inputs makes float raise ValueError
float_ok(antal) ==
    \/ antal.t = "num"
    \/ antal.t = "str" /\ antal.s # <<>> /\ \A i \in 1..Len(antal.s) : is_digit(antal.s[i])
float_of(antal) == IF antal.t = "num" THEN antal.v ELSE int_of(antal.s)

---------------------------------------------------------------------------
(* The workbook: sheet names and rows.                                     *)

Blad1 == <<"B","l","a","d","1">>
Sheet_2024_05 == <<"2","0","2","4","-","0","5">>
Sheet_2024_06 == <<"2","0","2","4","-","0","6">>
Sheet_Notes == <<"N","o","t","e","s">>
Sheet_2024_5 == <<"2","0","2","4","-","5">>

SheetNames == {Sheet_2024_05, Sheet_2024_06, Blad1, Sheet_Notes, Sheet_2024_5}

\* xl_file.sheet_names: the names of one workbook, each once, in workbook order
Workbooks ==
    UNION { { w \in [1..n -> SheetNames] : \A i, j \in 1..n : w[i] = w[j] => i = j }
            : n \in 0..MaxSheets }

\* re.match(r'^\d{4}-\d{2}$', sheet_name); `$` also matches before one
\* trailing newline
sheet_re_match(name) ==
    LET body == IF Len(name) = 8 /\ name[8] = "\n" THEN SubSeq(name, 1, 7) ELSE name
    IN  /\ Len(body) = 7
        /\ \A i \in {1, 2, 3, 4, 6, 7} : is_digit(body[i])
        /\ body[5] = "-"

\* A plausible slip: only the first `continue` test, which lets Blad1 through.
skip_sheet_first_test_only(name) ==
    ~sheet_re_match(name) /\ name # Blad1

\* the two `continue` tests at the head of the sheet loop
skip_sheet(name) ==
    \/ ~sheet_re_match(name) /\ name # Blad1
    \/ name = Blad1

Date_0330 == <<"2","0","2","4","-","0","3","-","3","0">>
Date_0331 == <<"2","0","2","4","-","0","3","-","3","1">>
Date_0230 == <<"2","0","2","4","-","0","2","-","3","0">>    \* no such day
Hour_09 == <<"0","9">>
Hour_14 == <<"1","4">>
Cat_Cafe == <<"C","a","f","é"," ","K","a","l","l","t">>
Cat_Food == <<"F","o","o","d">>
Cat_Drinks == <<"D","r","i","n","k","s">>

\* Column 0 of a row: its type, whether it starts with 'Totalt', and the groups
\* of the regex 'Totalt (\d{4}-\d{2}-\d{2}) (.+?) Kl: (\d{2})' (<<>>: no match).
LabelBlank == [t |-> "nan", totalt |-> FALSE, groups |-> <<>>]
LabelNumber == [t |-> "num", totalt |-> FALSE, groups |-> <<>>]
LabelOther == [t |-> "str", totalt |-> FALSE, groups |-> <<>>]
LabelMalformed == [t |-> "str", totalt |-> TRUE, groups |-> <<>>]
LabelTotal(d, c, h) == [t |-> "str", totalt |-> TRUE, groups |-> <<d, c, h>>]

Row(label, antal) == [c0 |-> label, c4 |-> antal]
NoRow == Row(LabelBlank, Blank)

Cell_abc == Txt(<<"a","b","c">>)
Cell_3 == Txt(<<"3">>)
Cell_empty == Txt(<<>>)

\* The rows a sheet of process_excel_file's workbook is made of: rows that are
\* no total rows, total rows with quantity 7 over four keys and an unknown
\* category, every kind of quantity cell on one key, and a date that is no day.
Rows ==
    { Row(l, Num(7)) : l \in {LabelBlank, LabelNumber, LabelOther, LabelMalformed} }
    \cup { Row(l, Num(7)) :
             l \in { LabelTotal(Date_0330, Cat_Cafe, Hour_09),
                     LabelTotal(Date_0330, Cat_Food, Hour_09),
                     LabelTotal(Date_0330, Cat_Cafe, Hour_14),
                     LabelTotal(Date_0331, Cat_Cafe, Hour_09),
                     LabelTotal(Date_0330, Cat_Drinks, Hour_09) } }
    \cup { Row(LabelTotal(Date_0330, Cat_Cafe, Hour_09), q) :
             q \in {Blank, Cell_empty, Num(0), Cell_3, Cell_abc} }
    \cup { Row(LabelTotal(Date_0330, Cat_Food, Hour_09), Cell_3) }
    \cup { Row(LabelTotal(Date_0330, Cat_Drinks, Hour_09), q) : q \in {Blank, Cell_abc} }
    \cup { Row(LabelTotal(Date_0230, c, Hour_09), Num(7)) : c \in {Cat_Food, Cat_Drinks} }

\* The rows of a workbook handed to an entry point (main, the external
\* function, the upload handler).
RunRows ==
    { Row(LabelOther, Num(7)),
      Row(LabelTotal(Date_0330, Cat_Cafe, Hour_09), Num(7)),
      Row(LabelTotal(Date_0330, Cat_Food, Hour_09), Cell_3),
      Row(LabelTotal(Date_0330, Cat_Cafe, Hour_09), Cell_abc),
      Row(LabelTotal(Date_0330, Cat_Drinks, Hour_09), Cell_abc) }

---------------------------------------------------------------------------
(* process_excel_file.                                                     *)

\* the defaultdict's factory
default_entry ==
    [value |-> 0, externalForecastConfigurationId |-> <<>>,
     unit |-> <<"p","r","o","d","u","k","t","i","o","n">>, section |-> <<"k","ö","k","e","t">>]

has_key(agg, key) == \E i \in 1..Len(agg) : agg[i].key = key

\* aggregated_data[key]: a missing key is inserted with the default
getitem(agg, key) ==
    IF has_key(agg, key) THEN agg ELSE Append(agg, [key |-> key, data |-> default_entry])

\* A plausible slip: `=` written for `+=`.
accumulate_overwrite(old, x) == x

\* ['value'] += x
accumulate(old, x) == old + x

add_value(agg, key, x) ==
    [i \in 1..Len(agg) |->
        IF agg[i].key = key
        THEN [agg[i] EXCEPT !.data.value = accumulate(@, x)]
        ELSE agg[i]]

\* A plausible slip: a text that is no number is taken as 0 instead of raising.
coerce_lenient(antal) ==
    IF float_ok(antal) THEN [ok |-> TRUE, v |-> float_of(antal)]
    ELSE [ok |-> TRUE, v |-> 0]

\* float(antal), or the ValueError it raises
coerce(antal) ==
    IF float_ok(antal) THEN [ok |-> TRUE, v |-> float_of(antal)]
    ELSE [ok |-> FALSE, v |-> 0]

\* One iteration of `for idx, row in df.iterrows()`: the dictionary after it,
\* whether it raised, and the tuple it aggregated (<<>>: none).
row_step(agg, r) ==
    LET unchanged == [agg |-> agg, raised |-> FALSE, tuple |-> <<>>] IN
    IF ~(notna(r.c0) /\ r.c0.t = "str" /\ r.c0.totalt) THEN unchanged
    ELSE IF r.c0.groups = <<>> THEN unchanged
    ELSE
      LET date_str == r.c0.groups[1]
          category == r.c0.groups[2]
          hour_str == r.c0.groups[3]
          antal == IF notna(r.c4) THEN r.c4 ELSE Num(0)
      IN
      IF (antal.t = "str" /\ antal.s = <<>>) \/ ~notna(antal) THEN unchanged
      ELSE
        LET variable_id == get_variable_id(category) IN
        IF variable_id = <<>> THEN unchanged
        ELSE
          LET time_formatted == hour_str \o <<":","0","0",":","0","0">>
              timezone == get_swedish_timezone_offset(date_str)
              key == <<date_str, time_formatted, timezone, variable_id>>
              x == coerce(antal)
          IN
          IF timezone = ValueError
          THEN [agg |-> agg, raised |-> TRUE, tuple |-> <<>>]
          ELSE IF ~x.ok
          THEN [agg |-> getitem(agg, key), raised |-> TRUE, tuple |-> <<>>]
          ELSE [agg |-> add_value(getitem(agg, key), key, x.v),
                raised |-> FALSE, tuple |-> <<key, x.v>>]

\* A plausible slip: the variable id left out of the sort key.
sort_key_without_id(item) == <<item.date, item.time>>

\* key=lambda x: (x['date'], x['time'], x['externalForecastVariableId'])
sort_key(item) == <<item.date, item.time, item.externalForecastVariableId>>

\* list.sort is stable: an item goes behind every item that is not greater
RECURSIVE insert_sorted(_, _)
insert_sorted(sorted, item) ==
    IF sorted = <<>> THEN <<item>>
    ELSE IF tuple_lt(sort_key(item), sort_key(sorted[1]))
    THEN <<item>> \o sorted
    ELSE <<sorted[1]>> \o insert_sorted(Tail(sorted), item)

RECURSIVE sort_results(_)
sort_results(list) ==
    IF list = <<>> THEN <<>>
    ELSE insert_sorted(sort_results(SubSeq(list, 1, Len(list) - 1)), list[Len(list)])

\* the list built from aggregated_data.items(), then sorted
materialize(agg) ==
    sort_results(
        [i \in 1..Len(agg) |->
            [date |-> agg[i].key[1],
             time |-> agg[i].key[2],
             timezone |-> agg[i].key[3],
             value |-> agg[i].data.value,
             externalForecastVariableId |-> agg[i].key[4],
             externalForecastConfigurationId |-> agg[i].data.externalForecastConfigurationId,
             unit |-> agg[i].data.unit,
             section |-> agg[i].data.section]])

---------------------------------------------------------------------------
(* format_output.                                                          *)

header ==
    <<"d","a","t","e"," ","*","\t","t","i","m","e"," ","*","\t",
      "t","i","m","e","z","o","n","e"," ","*","\t","v","a","l",
      "u","e"," ","*","\t","e","x","t","e","r","n","a","l","F",
      "o","r","e","c","a","s","t","V","a","r","i","a","b","l",
      "e","I","d"," ","*","\t","e","x","t","e","r","n","a","l",
      "F","o","r","e","c","a","s","t","C","o","n","f","i","g",
      "u","r","a","t","i","o","n","I","d","\t","U","n","i","t",
      " ","i","n","t","e","g","r","a","t","i","o","n"," ","k",
      "e","y","\t","S","e","c","t","i","o","n"," ","i","n","t",
      "e","g","r","a","t","i","o","n"," ","k","e","y">>

\* str(n) of a natural number
RECURSIVE str_int(_)
str_int(n) ==
    IF n < 10 THEN <<Digits[n + 1]>>
    ELSE str_int(n \div 10) \o <<Digits[(n % 10) + 1]>>

\* str(x) of a float with an integral value, as the f-string renders it
str_float(x) == str_int(x) \o <<".","0">>

\* the f-string of one record
format_line(item) ==
    item.date \o <<"\t">> \o item.time \o <<"\t">> \o item.timezone \o <<"\t">>
    \o str_float(item.value) \o <<"\t">> \o item.externalForecastVariableId
    \o <<"\t">> \o item.externalForecastConfigurationId \o <<"\t">> \o item.unit
    \o <<"\t">> \o item.section

\* '\n'.join(lines)
RECURSIVE join_lines(_)
join_lines(lines) ==
    IF lines = <<>> THEN <<>>
    ELSE IF Len(lines) = 1 THEN lines[1]
    ELSE lines[1] \o <<"\n">> \o join_lines(Tail(lines))

output_lines(res) == <<header>> \o [i \in 1..Len(res) |-> format_line(res[i])]

format_output(res) == join_lines(output_lines(res))

\* txt.count(chr(10))
count_newlines(txt) == Cardinality({i \in 1..Len(txt) : txt[i] = "\n"})

\* the number app.py shows: txt.count(chr(10)) - 1
shown_rows(txt) == count_newlines(txt) - 1

---------------------------------------------------------------------------
(* One invocation: main (the command line), format_varustatistik_external  *)
(* with an output path ("external"), and app.py's upload handler, which    *)
(* calls format_varustatistik_external without one ("app").                *)

Entries == {"main", "external", "app"}

\* process_excel_file called on its own
Direct == "direct"

NoFile == [exists |-> FALSE, content |-> <<>>]

\* where an exception ends the invocation: main's `except` prints it and calls
\* sys.exit(1); format_varustatistik_external lets it propagate to its caller
on_error == IF entry = "main" THEN "exit1" ELSE "propagated"

\* a handle once the invocation is at `target`: when main ends, by sys.exit or
\* by running off its end, the process ends and with it every open handle
release(handle, target) ==
    IF target \in {"exit0", "exit1"} /\ handle = "open" THEN "closed" ELSE handle

Terminated ==
    \/ pc \in {"exit0", "exit1", "done", "propagated"}
    \/ pc = "returned_text" /\ entry = "external"
    \/ pc = "returned" /\ entry = Direct

InitWith(entries) ==
    /\ pc = "start"
    /\ entry \in entries
    /\ sheet_names = <<>>
    /\ sheet_name = <<>>
    /\ n_rows = 0
    /\ row = NoRow
    /\ aggregated_data = <<>>
    /\ accepted = EmptyBag
    /\ results = <<>>
    /\ output = <<>>
    /\ xl_file = "none"
    /\ out_file = "none"
    /\ written = NoFile
    /\ shown = <<>>
    /\ arg = <<>>
    /\ ret = <<>>

\* main without an input path: the usage message and sys.exit(1)
Usage ==
    /\ pc = "start"
    /\ entry = "main"
    /\ pc' = "exit1"
    /\ UNCHANGED <<entry, sheet_names, sheet_name, n_rows, row, aggregated_data,
                   accepted, results, output, xl_file, out_file, written, shown,
                   arg, ret>>

\* xl_file = pd.ExcelFile(filename): the workbook opens, or the call raises
OpenWorkbook ==
    /\ pc = "start"
    /\ \/ \E w \in Workbooks :
            /\ sheet_names' = w
            /\ xl_file' = "open"
            /\ pc' = "sheets"
       \/ /\ pc' = on_error
          /\ UNCHANGED <<sheet_names, xl_file>>
    /\ UNCHANGED <<entry, sheet_name, n_rows, row, aggregated_data, accepted,
                   results, output, out_file, written, shown, arg, ret>>

\* one iteration of the sheet loop up to pd.read_excel
NextSheet ==
    /\ pc = "sheets"
    /\ sheet_names # <<>>
    /\ sheet_name' = Head(sheet_names)
    /\ sheet_names' = Tail(sheet_names)
    /\ pc' = IF skip_sheet(Head(sheet_names)) THEN "sheets" ELSE "rows"
    /\ UNCHANGED <<entry, n_rows, row, aggregated_data, accepted, results, output,
                   xl_file, out_file, written, shown, arg, ret>>

\* one iteration of the row loop
ProcessRow(rows) ==
    /\ pc = "rows"
    /\ n_rows < MaxRows
    /\ \E r \in rows : \E o \in {row_step(aggregated_data, r)} :
         /\ row' = r
         /\ n_rows' = n_rows + 1
         /\ aggregated_data' = o.agg
         /\ accepted' = IF o.tuple = <<>> THEN accepted
                        ELSE accepted (+) SetToBag({o.tuple})
         /\ pc' = IF o.raised THEN on_error ELSE "rows"
         /\ xl_file' = IF o.raised THEN release(xl_file, on_error) ELSE xl_file
    /\ UNCHANGED <<entry, sheet_names, sheet_name, results, output, out_file,
                   written, shown, arg, ret>>

\* the row loop of one sheet is exhausted
EndSheet ==
    /\ pc = "rows"
    /\ pc' = "sheets"
    /\ row' = NoRow
    /\ UNCHANGED <<entry, sheet_names, sheet_name, n_rows, aggregated_data,
                   accepted, results, output, xl_file, out_file, written, shown,
                   arg, ret>>

\* the sheet loop is exhausted: build the list, sort it, return it.  Nothing
\* closes xl_file; once the local name is gone the handle is closed only if
\* and when the garbage collector finalizes it.
ReturnResults ==
    /\ pc = "sheets"
    /\ sheet_names = <<>>
    /\ results' = materialize(aggregated_data)
    /\ xl_file' \in {"open", "closed"}
    /\ pc' = "returned"
    /\ sheet_name' = <<>>
    /\ row' = NoRow
    /\ UNCHANGED <<entry, sheet_names, n_rows, aggregated_data, accepted, output,
                   out_file, written, shown, arg, ret>>

\* output = format_output(results); app.py passes no output path, so there
\* format_varustatistik_external returns the text at once
Format ==
    /\ pc = "returned"
    /\ entry \in Entries
    /\ output' = format_output(results)
    /\ pc' = IF entry = "app" THEN "returned_text" ELSE "formatted"
    /\ UNCHANGED <<entry, sheet_names, sheet_name, n_rows, row, aggregated_data,
                   accepted, results, xl_file, out_file, written, shown, arg, ret>>

\* open(output_file, 'w'): creates or truncates the file, or raises
OpenOutput ==
    /\ pc = "formatted"
    /\ \/ /\ out_file' = "open"
          /\ written' = [exists |-> TRUE, content |-> <<>>]
          /\ pc' = "writing"
          /\ UNCHANGED xl_file
       \/ /\ pc' = on_error
          /\ xl_file' = release(xl_file, on_error)
          /\ UNCHANGED <<out_file, written>>
    /\ UNCHANGED <<entry, sheet_names, sheet_name, n_rows, row, aggregated_data,
                   accepted, results, output, shown, arg, ret>>

\* f.write(output) and the end of the `with` block, which closes f whether or
\* not the write raised
WriteOutput ==
    /\ pc = "writing"
    /\ out_file' = "closed"
    /\ \/ /\ written' = [exists |-> TRUE, content |-> output]
          /\ pc' = IF entry = "main" THEN "exit0" ELSE "returned_text"
       \/ /\ pc' = on_error
          /\ UNCHANGED written
    /\ xl_file' = release(xl_file, pc')
    /\ UNCHANGED <<entry, sheet_names, sheet_name, n_rows, row, aggregated_data,
                   accepted, results, output, shown, arg, ret>>

\* app.py: st.success(f"Hittade {txt.count(chr(10)) - 1} rader. ...")
ShowCount ==
    /\ pc = "returned_text"
    /\ entry = "app"
    /\ shown' = <<shown_rows(output)>>
    /\ pc' = "done"
    /\ UNCHANGED <<entry, sheet_names, sheet_name, n_rows, row, aggregated_data,
                   accepted, results, output, xl_file, out_file, written, arg, ret>>

\* process_excel_file, called on its own
Init == InitWith({Direct})

Next ==
    \/ OpenWorkbook
    \/ NextSheet
    \/ ProcessRow(Rows)
    \/ EndSheet
    \/ ReturnResults

Spec == Init /\ [][Next]_vars

\* one invocation through an entry point
InitRun == InitWith(Entries)

NextRun ==
    \/ Usage
    \/ OpenWorkbook
    \/ NextSheet
    \/ ProcessRow(RunRows)
    \/ EndSheet
    \/ ReturnResults
    \/ Format
    \/ OpenOutput
    \/ WriteOutput
    \/ ShowCount

SpecRun == InitRun /\ [][NextRun]_vars

---------------------------------------------------------------------------
(* The two pure functions, called on their own.                            *)

pad2(n) == <<Digits[(n \div 10) + 1], Digits[(n % 10) + 1]>>
pad4(n) == pad2(n \div 100) \o pad2(n % 100)
fmt_date(y, m, d) == pad4(y) \o <<"-">> \o pad2(m) \o <<"-">> \o pad2(d)

\* the years of the bounded range, and the two nearest century years that
\* are no leap years
TzYears == (FirstYear..(FirstYear + YearSpan - 1)) \cup {1900, 2100}

\* date strings \d{4}-\d{2}-\d{2}, days that do not exist included
TzInputs == { fmt_date(y, m, d) : y \in TzYears, m \in 1..12, d \in 1..31 }

Fragments ==
    { <<"C","a","f","é">>, <<"S","A","L","L","A","D">>, <<"s","a","l","l">>,
      <<"a","d">>, <<"F","o","o","d">>, <<"F","O","O">>, <<"D">>,
      <<"K","i","t","c","h","e","n">>, <<"P","r","i","n","t","e","r">>,
      <<"D","r","i","n","k","s">>, <<" ">> }

RECURSIVE LabelsOf(_)
LabelsOf(n) ==
    IF n = 0 THEN {<<>>}
    ELSE LabelsOf(n - 1) \cup { l \o f : l \in LabelsOf(n - 1), f \in Fragments }

\* category labels: up to MaxFrags fragments in a row
ClsInputs == LabelsOf(MaxFrags)

InitCall(inputs, at) ==
    /\ pc = at
    /\ arg \in inputs
    /\ ret = <<>>
    /\ entry = Direct
    /\ sheet_names = <<>>
    /\ sheet_name = <<>>
    /\ n_rows = 0
    /\ row = NoRow
    /\ aggregated_data = <<>>
    /\ accepted = EmptyBag
    /\ results = <<>>
    /\ output = <<>>
    /\ xl_file = "none"
    /\ out_file = "none"
    /\ written = NoFile
    /\ shown = <<>>

CallTimezone ==
    /\ pc = "call_tz"
    /\ ret' = get_swedish_timezone_offset(arg)
    /\ pc' = "ret_tz"
    /\ UNCHANGED <<entry, sheet_names, sheet_name, n_rows, row, aggregated_data,
                   accepted, results, output, xl_file, out_file, written, shown, arg>>

InitTz == InitCall(TzInputs, "call_tz")
NextTz == CallTimezone
SpecTz == InitTz /\ [][NextTz]_vars

CallVariableId ==
    /\ pc = "call_cls"
    /\ ret' = get_variable_id(arg)
    /\ pc' = "ret_cls"
    /\ UNCHANGED <<entry, sheet_names, sheet_name, n_rows, row, aggregated_data,
                   accepted, results, output, xl_file, out_file, written, shown, arg>>

InitCls == InitCall(ClsInputs, "call_cls")
NextCls == CallVariableId
SpecCls == InitCls /\ [][NextCls]_vars

---------------------------------------------------------------------------
(* Vocabulary of the properties, stated without the operators above.       *)

\* the row is a total row: column 0 fully matches the 'Totalt ...' pattern
IsTotalRow(r) == r.c0.t = "str" /\ r.c0.totalt /\ r.c0.groups # <<>>

\* a blank cell, an empty text or the number zero
ZeroOrBlank(cell) ==
    \/ cell.t = "nan"
    \/ cell.t = "str" /\ cell.s = <<>>
    \/ cell.t = "num" /\ cell.v = 0

\* a text that is present and is no number
NonNumeric(cell) ==
    /\ cell.t = "str"
    /\ cell.s # <<>>
    /\ \E i \in 1..Len(cell.s) : cell.s[i] \notin {Digits[k] : k \in 1..10}

\* two characters that differ at most in case
SameLetter(a, b) ==
    a = b \/ \E k \in 1..Len(UpperChars) : {a, b} = {UpperChars[k], LowerChars[k]}

\* the label contains the word, whatever the case of its letters
HasWord(word, label) ==
    \E i \in 0..(Len(label) - Len(word)) :
        \A j \in 1..Len(word) : SameLetter(label[i + j], word[j])

\* the classification rule: café or sallad first, then food
Classify(label) ==
    IF HasWord(cafe_lit, label) \/ HasWord(sallad_lit, label) THEN kallmat
    ELSE IF HasWord(food_lit, label) THEN varmmat
    ELSE <<>>

\* day of the week by Sakamoto's rule: 0 is Sunday
MonthTerm == <<0, 3, 2, 5, 0, 3, 5, 1, 4, 6, 2, 4>>
DayOfWeek(y, m, d) ==
    LET yy == IF m < 3 THEN y - 1 ELSE y
    IN (yy + (yy \div 4) - (yy \div 100) + (yy \div 400) + MonthTerm[m] + d) % 7

\* the last Sunday of March or of October (months of 31 days)
LastSundayOf(y, m) == CHOOSE d \in 25..31 : DayOfWeek(y, m, d) = 0

IsCalendarDate(y, m, d) ==
    /\ m \in 1..12
    /\ d >= 1
    /\ d <= (IF m \in {4, 6, 9, 11} THEN 30
             ELSE IF m # 2 THEN 31
             ELSE IF y % 4 = 0 /\ (y % 100 # 0 \/ y % 400 = 0) THEN 29 ELSE 28)

\* daylight time: from the last Sunday of March up to, and not including, the
\* last Sunday of October
InDaylightTime(y, m, d) ==
    /\ (m > 3 \/ (m = 3 /\ d >= LastSundayOf(y, 3)))
    /\ (m < 10 \/ (m = 10 /\ d < LastSundayOf(y, 10)))

\* the key of a record
KeyOf(rec) == <<rec.date, rec.time, rec.timezone, rec.externalForecastVariableId>>

\* the keys of the tuples aggregated so far
AcceptedKeys == { t[1] : t \in BagToSet(accepted) }

RECURSIVE SumOf(_)
SumOf(S) ==
    IF S = {} THEN 0
    ELSE LET t == CHOOSE t \in S : TRUE
         IN t[2] * CopiesIn(t, accepted) + SumOf(S \ {t})

\* the sum of the quantities aggregated under one key
AcceptedSum(key) == SumOf({ t \in BagToSet(accepted) : t[1] = key })

\* rank of a record in (date, time, variable id) order: kallmat before varmmat
IdRank(id) == IF id = kallmat THEN 0 ELSE 1
Before(a, b) ==
    LET da == parse_date(a.date)
        db == parse_date(b.date)
        ha == int_of(SubSeq(a.time, 1, 2))
        hb == int_of(SubSeq(b.time, 1, 2))
        ia == IdRank(a.externalForecastVariableId)
        ib == IdRank(b.externalForecastVariableId)
    IN \/ da[1] < db[1]
       \/ da[1] = db[1] /\ da[2] < db[2]
       \/ da[1] = db[1] /\ da[2] = db[2] /\ da[3] < db[3]
       \/ da = db /\ ha < hb
       \/ da = db /\ ha = hb /\ ia < ib

\* four digits, '-', two digits
IsYearMonth(name) ==
    /\ Len(name) = 7
    /\ name[5] = "-"
    /\ \A i \in {1, 2, 3, 4, 6, 7} : name[i] \in {Digits[k] : k \in 1..10}

Aborted == pc \in {"exit1", "propagated"}

---------------------------------------------------------------------------
(* The properties.                                                         *)

\* C1: a total row whose quantity is blank or zero contributes no record:
\* every record process_excel_file returns has at least one aggregated tuple
\* of its key with a quantity that is not zero.
C1_NoRecordFromZeroOrBlankRows ==
    pc = "returned" =>
        \A i \in 1..Len(results) :
            \E t \in BagToSet(accepted) : t[1] = KeyOf(results[i]) /\ t[2] # 0

\* C2, as stated: after a total row whose quantity is a text that is no
\* number, whatever its category, the run has aborted, no output file exists
\* and no text has been produced.
C2_NonNumericAlwaysAborts ==
    (IsTotalRow(row) /\ NonNumeric(row.c4)) =>
        (Aborted /\ ~written.exists /\ output = <<>> /\ out_file = "none")

\* C2, amended: after a total row whose category is recognized and whose
\* quantity is a text that is no number, the run has aborted, no output file
\* exists and no text has been produced.
C2_NonNumericAbortsRecognized ==
    (IsTotalRow(row) /\ NonNumeric(row.c4) /\ Classify(row.c0.groups[2]) # <<>>) =>
        (Aborted /\ ~written.exists /\ output = <<>> /\ out_file = "none")

C2_Witness ==
    /\ pc = "exit1"
    /\ IsTotalRow(row)
    /\ NonNumeric(row.c4)
    /\ Classify(row.c0.groups[2]) = kallmat
    /\ ~written.exists

\* C3: the returned list holds exactly one record per key that was
\* aggregated, no two records share a key, and each record's value is the sum
\* of the quantities aggregated under its key.
C3_OneRecordPerKeyWithSum ==
    pc = "returned" =>
        /\ { KeyOf(results[i]) : i \in 1..Len(results) } = AcceptedKeys
        /\ \A i, j \in 1..Len(results) :
               KeyOf(results[i]) = KeyOf(results[j]) => i = j
        /\ \A i \in 1..Len(results) :
               results[i].value = AcceptedSum(KeyOf(results[i]))

C3_Witness ==
    /\ pc = "returned"
    /\ Len(results) = 2
    /\ \E i \in 1..Len(results) : results[i].value = 10

\* C4: for a date that exists, get_swedish_timezone_offset returns +02:00
\* exactly from the last Sunday of March up to, and not including, the last
\* Sunday of October, and +01:00 otherwise; both backward searches stop on
\* that Sunday, within the month.
C4_TimezoneRule ==
    pc = "ret_tz" =>
        LET d == parse_date(arg) IN
        IsCalendarDate(d[1], d[2], d[3]) =>
            /\ ret = (IF InDaylightTime(d[1], d[2], d[3]) THEN CEST ELSE CET)
            /\ last_sunday_from(<<d[1], 3, 31>>) = <<d[1], 3, LastSundayOf(d[1], 3)>>
            /\ last_sunday_from(<<d[1], 10, 31>>) = <<d[1], 10, LastSundayOf(d[1], 10)>>
            /\ (arg = fmt_date(2024, 3, 31) => ret = CEST)
            /\ (arg = fmt_date(2024, 10, 26) => ret = CEST)
            /\ (arg = fmt_date(2024, 10, 27) => ret = CET)
            /\ (arg = fmt_date(2024, 1, 15) => ret = CET)

C4_Witness ==
    /\ pc = "ret_tz"
    /\ arg = fmt_date(2024, 10, 27)
    /\ ret = CET

\* C5: get_variable_id decides by substring, whatever the case: café or
\* sallad gives kallmat; otherwise food gives varmmat; otherwise the result is
\* empty.
C5_ClassifierRule ==
    pc = "ret_cls" =>
        /\ ret = Classify(arg)
        /\ (HasWord(sallad_lit, arg) /\ HasWord(food_lit, arg) => ret = kallmat)
        /\ ((HasWord(kitchen_lit, arg) \/ HasWord(printer_lit, arg))
              /\ ~HasWord(food_lit, arg) /\ ~HasWord(cafe_lit, arg)
              /\ ~HasWord(sallad_lit, arg) => ret = <<>>)

C5_Witness ==
    /\ pc = "ret_cls"
    /\ HasWord(sallad_lit, arg)
    /\ HasWord(food_lit, arg)
    /\ ret = kallmat

\* C6: the returned list is strictly ascending in (date, time, variable id)
\* order, kallmat before varmmat.
C6_StrictlySorted ==
    pc = "returned" =>
        \A i, j \in 1..Len(results) : i < j => Before(results[i], results[j])

\* records of one date and time, returned in the order opposite to the one
\* in which their keys were first met
C6_Witness ==
    /\ pc = "returned"
    /\ Len(results) = 3
    /\ Len(aggregated_data) = 3
    /\ aggregated_data[1].key[4] = varmmat
    /\ aggregated_data[2].key[4] = kallmat
    /\ aggregated_data[1].key[1] = aggregated_data[2].key[1]
    /\ aggregated_data[1].key[2] = aggregated_data[2].key[2]
    /\ results[1].externalForecastVariableId = kallmat

C8_HandlesReleasedAtExit ==
    Terminated => (xl_file # "open" /\ out_file # "open")

\* C9: every variable id in the dictionary and in the returned list is
\* kallmat or varmmat, and a total row with an unrecognized category leaves
\* the dictionary as it was and raises nothing.
C9_OnlyRecognizedIds ==
    [][ /\ \A i \in 1..Len(aggregated_data') :
              aggregated_data'[i].key[4] \in {kallmat, varmmat}
        /\ \A i \in 1..Len(results') :
              results'[i].externalForecastVariableId \in {kallmat, varmmat}
        /\ (n_rows' = n_rows + 1 /\ IsTotalRow(row')
              /\ Classify(row'.c0.groups[2]) = <<>>)
             => (aggregated_data' = aggregated_data /\ pc' = "rows") ]_vars

C9_Witness ==
    /\ pc = "rows"
    /\ IsTotalRow(row)
    /\ Classify(row.c0.groups[2]) = <<>>
    /\ NonNumeric(row.c4)
    /\ Len(aggregated_data) = 1

\* C10: the text has one line per record after the header line and no
\* trailing newline, and the count the upload handler shows is the number of
\* records.
C10_ShownCountIsRecordCount ==
    pc = "done" =>
        /\ count_newlines(output) + 1 = Len(results) + 1
        /\ output[Len(output)] # "\n"
        /\ shown = <<Len(results)>>

===========================================================================
